---- MODULE Spec2Model ----
(***************************************************************************)
(* The embedded supervisor of isaaxiot/service: one Process (process.go)   *)
(* with its restart loop, Stop watchdog, Attach and the supervised         *)
(* adapter's Stop, over an OS process table, a pidfile and a clock that    *)
(* counts Unix seconds.                                                    *)
(***************************************************************************)
EXTENDS Integers, Sequences, FiniteSets, TLC

\* ------------------------------------------------------------------ bounds
MaxTicks == 2       \* seconds the clock may advance
MaxChildren == 2    \* children one behaviour may spawn
MaxCalls == 2       \* calls of Start, Stop, Attach and Service.Stop in one behaviour
MaxStartSecs == 1   \* largest configured startsecs
MaxGroups == 2      \* "group:" prefixes in front of a program name
MaxProcs == 2       \* Process objects NewProcess may make
MaxEntries == 2     \* entries of the ProcessManager's map
StartRetries == 2   \* configured startretries
StopWaitSecs == 1   \* configured stopwaitsecs

\* The process left behind by an earlier supervisor has the smallest pid.
OrphanPid == 1
ChildPids == (OrphanPid + 1)..(OrphanPid + MaxChildren)
Pids == {OrphanPid} \cup ChildPids

\* Pids are far below any Unix time the program reads (pid_max is 2^22, the
\* epoch is beyond 10^9): the clock starts above every pid plus startsecs.
InitTime == OrphanPid + MaxChildren + MaxStartSecs + 1
MaxTime == InitTime + MaxTicks

\* ------------------------------------------------------------ ProcessState
STOPPED == "STOPPED"
STARTING == "STARTING"
RUNNING == "RUNNING"
BACKOFF == "BACKOFF"
STOPPING == "STOPPING"
EXITED == "EXITED"
FATAL == "FATAL"
UNKNOWN == "UNKNOWN"
ProcessState == {STOPPED, STARTING, RUNNING, BACKOFF, STOPPING, EXITED, FATAL, UNKNOWN}

\* The states Stop's watchdog and Stop(wait=true) keep polling in.
Live == {STARTING, RUNNING, STOPPING}

VARIABLES
    cfg,         \* the ConfigEntry options the Process reads
    state,       \* Process.state
    inStart,     \* Process.inStart
    stopByUser,  \* Process.stopByUser
    retryTimes,  \* Process.retryTimes
    startTime,   \* Process.startTime, Unix seconds
    stopTime,    \* Process.stopTime, Unix seconds
    cmd,         \* Process.cmd: [set, pid, ps]; set = FALSE is nil,
                 \* pid = 0 is cmd.Process == nil, ps = <<>> is ProcessState == nil
    lock,        \* Process.lock: "free", or "loop" while run holds it
    pidfile,     \* the file <directory>/<name>.pid: [kind, pid, epoch]
    now,         \* time.Now().Unix()
    os,          \* the OS process table: pid -> [st, code]
    lp,          \* the restart-loop goroutine of Start
    st,          \* the caller inside Stop
    wd,          \* the watchdog goroutine of Stop
    rc,          \* runCond and finished of Start(true), and its caller
    pm,          \* the ProcessManager: [procs, lock, fe, ret, nextId]
    calls,       \* API calls made so far
    ev           \* the operation that made the last step

vars == <<cfg, state, inStart, stopByUser, retryTimes, startTime, stopTime, cmd,
          lock, pidfile, now, os, lp, st, wd, rc, pm, calls, ev>>

\* ------------------------------------------------------------------ values
NilCmd == [set |-> FALSE, pid |-> 0, ps |-> <<>>]
NoFile == [kind |-> "none", pid |-> 0, epoch |-> 0]
EmptyFile == [kind |-> "empty", pid |-> 0, epoch |-> 0]
PidData(pid, epoch) == [kind |-> "data", pid |-> pid, epoch |-> epoch]

Unborn == [st |-> "unborn", code |-> 0]
Alive == [st |-> "alive", code |-> 0]
Gone == [st |-> "gone", code |-> 0]
Zombie(code) == [st |-> "zombie", code |-> code]

\* syscall.WaitStatus.ExitStatus() of a process a signal ended.
Signalled == 0 - 1
\* Exit codes a child may return on its own: the two expected by default and
\* one unexpected.
ChildExitCodes == {0, 2, 7}

IdleLoop == [pc |-> "idle", wpid |-> 0, wcur |-> FALSE, fast |-> 0]
\* restart: "no" for a plain Stop; for the Stop(true) of Restart, whether the
\* child was running when Restart was called.
IdleStop == [pc |-> "idle", wait |-> FALSE, wake |-> 0, restart |-> "no"]
IdleWd == [pc |-> "idle", endTime |-> 0, wake |-> 0]
\* wait: the restart loop was launched by Start(true); L: who holds
\* runCond.L; pc: where the caller of Start(true) is; finished: the flag
\* finishCb sets.
IdleCond == [wait |-> FALSE, L |-> "free", pc |-> "idle", finished |-> FALSE]

Configs ==
    [attempt : {"ok", "emptycmd", "baduser"},
     autorestart : {"true", "false", "unexpected"},
     startsecs : 0..MaxStartSecs,
     stopsignal : {"", "TERM"},
     startretries : {StartRetries},
     exitcodes : {{0, 2}}]

\* ------------------------------------------------------------ ProcessManager
\* Program names: "n", and "g:" put in front of it up to MaxGroups times
\* ("g:n", "g:g:n").
RECURSIVE GroupName(_)
GroupName(k) == IF k = 0 THEN <<"n">> ELSE <<"g", ":">> \o GroupName(k - 1)
Names == {GroupName(k) : k \in 0..MaxGroups}
\* s.Name of the supervised service.
ServiceName == GroupName(0)

\* A *Process the manager holds: the object NewProcess made (id) and its
\* config.Name; NilProc is the nil pointer.
NilProc == [id |-> 0, name |-> <<>>, state |-> "nil"]
NewProc(id, name) == [id |-> id, name |-> name, state |-> STOPPED]
NoProcs == [name \in {} |-> NilProc]
IdleForEach == [pc |-> "idle", todo |-> {}, f |-> "none"]

\* NewProcessManager().
NewProcessManager ==
    [procs |-> NoProcs, lock |-> "free", fe |-> IdleForEach, ret |-> NilProc, nextId |-> 1]
\* The registry of supervisedSystem.New: CreateProcess(s.parseConfig()).
procMgr == [name \in {ServiceName} |-> NewProc(1, ServiceName)]
ServiceMgr == [NewProcessManager EXCEPT !.procs = procMgr, !.nextId = 2]

\* strings.LastIndex in the place of strings.Index.
IndexColonLast(name) ==
    IF \E i \in 1..Len(name) : name[i] = ":"
    THEN CHOOSE i \in 1..Len(name) :
            /\ name[i] = ":"
            /\ \A j \in (i + 1)..Len(name) : name[j] # ":"
    ELSE 0

\* strings.Index(name, ":"), counted from 1; 0 when there is no ":".
IndexColon(name) ==
    IF \E i \in 1..Len(name) : name[i] = ":"
    THEN CHOOSE i \in 1..Len(name) :
            /\ name[i] = ":"
            /\ \A j \in 1..(i - 1) : name[j] # ":"
    ELSE 0

\* ProcessManager.Find, the value returned.
Find(name) ==
    IF name \in DOMAIN pm.procs THEN pm.procs[name]
    ELSE IF IndexColon(name) # 0
              /\ SubSeq(name, IndexColon(name) + 1, Len(name)) \in DOMAIN pm.procs
         THEN pm.procs[SubSeq(name, IndexColon(name) + 1, Len(name))]
         ELSE NilProc

\* ---------------------------------------------------------------- ConfigEntry
getStartSeconds == cfg.startsecs
getStartRetries == cfg.startretries
getExitCodes == cfg.exitcodes
\* inExitCodes that knows exit code 0 only.
inExitCodesZero(exitCode) == exitCode = 0
inExitCodes(exitCode) == exitCode \in getExitCodes

\* ------------------------------------------------------------------- Init
Init ==
    /\ cfg \in Configs
    /\ state = STOPPED
    /\ inStart = FALSE
    /\ stopByUser = FALSE
    /\ retryTimes = 0
    /\ startTime = 0
    /\ stopTime = 0
    /\ cmd = NilCmd
    /\ lock = "free"
    /\ now = InitTime
    /\ \E f \in {"none", "empty", "live"} :
          /\ pidfile = CASE f = "none" -> NoFile
                         [] f = "empty" -> EmptyFile
                         [] OTHER -> PidData(OrphanPid, InitTime - 1)
          /\ os = [p \in Pids |->
                     IF p = OrphanPid
                     THEN (IF f = "live" THEN Alive ELSE Gone)
                     ELSE Unborn]
    /\ lp = IdleLoop
    /\ st = IdleStop
    /\ wd = IdleWd
    /\ rc = IdleCond
    /\ pm = ServiceMgr
    /\ calls = 0
    /\ ev = "tau"

\* ---------------------------------------------------------------- OS model
\* The lowest pid not yet used: the kernel hands out fresh pids.
NextPid == CHOOSE p \in ChildPids :
              /\ os[p].st = "unborn"
              /\ \A q \in ChildPids : os[q].st = "unborn" => p <= q
CanSpawn == \E p \in ChildPids : os[p].st = "unborn"

\* A process that ended: a child of this program stays a zombie until it is
\* waited for; the orphan is reaped by init at once.
Ended(p, code) == IF p = OrphanPid THEN Gone ELSE Zombie(code)

\* kill(pid, 0) succeeds for a running process and for a zombie.
Exists(p) == p \in Pids /\ os[p].st \in {"alive", "zombie"}

\* The processes spawned by cmd.Start() that are running.
AliveChildren == {p \in ChildPids : os[p].st = "alive"}

\* The processes cmd.Start() has spawned so far.
Spawned == {p \in ChildPids : os[p].st # "unborn"}

\* The child ended before startsecs of its life had passed: the restart loop
\* is still inside the startsecs sleep and the sleep cannot be over yet.
FastExit(p) ==
    /\ lp.pc = "sleep"
    /\ cmd.pid = p
    /\ now < startTime + getStartSeconds

\* The loop's record after process p ended: lp.fast counts the children of
\* this Start that ended fast, one after the other.
NoteExit(p) ==
    IF p \notin ChildPids THEN lp
    ELSE IF FastExit(p) THEN [lp EXCEPT !.fast = @ + 1]
    ELSE [lp EXCEPT !.fast = 0]

\* ------------------------------------------------------------ signals package
\* signals.ToSignal: an unknown or empty name is an error.
ToSignalFails(name) == name \notin {"TERM", "KILL"}

\* signals.Kill(process, sig) on a running process; ignore is the child's
\* choice to ignore a signal it can ignore.
Kill(p, signal, ignore) ==
    IF p \in Pids /\ os[p].st = "alive" /\ (signal = "KILL" \/ ~ignore)
    THEN [os EXCEPT ![p] = Ended(p, Signalled)]
    ELSE os
Delivered(p) == p \in Pids /\ os[p].st = "alive"

\* Process.sendSignal: the process table after the call.
sendSignal(signal, ignore) ==
    IF cmd.set /\ cmd.pid # 0 THEN Kill(cmd.pid, signal, ignore) ELSE os
\* whether sendSignal reached a running process
sendSignalDelivers == cmd.set /\ cmd.pid # 0 /\ Delivered(cmd.pid)

\* ------------------------------------------------------------------ Process
changeStateTo(procState) == state' = procState

\* Process.GetPid; NilDeref stands for the nil-pointer panic of
\* p.cmd.Process.Pid.
NilDeref == 0 - 1
GetPid ==
    IF state \in {STOPPED, FATAL, UNKNOWN, EXITED, BACKOFF} THEN 0
    ELSE IF ~cmd.set \/ cmd.pid = 0 THEN NilDeref
    ELSE cmd.pid

\* Process.getExitCode: <<code, ok>>.
getExitCode == IF cmd.ps = <<>> THEN <<Signalled, FALSE>> ELSE <<cmd.ps[1], TRUE>>

\* isAutoRestart with the test of the exit code turned round.
isAutoRestartExpected ==
    IF cfg.autorestart = "false" THEN FALSE
    ELSE IF cfg.autorestart = "true" THEN TRUE
    ELSE IF cmd.set /\ cmd.ps # <<>>
         THEN getExitCode[2] /\ inExitCodes(getExitCode[1])
         ELSE FALSE

\* Process.isAutoRestart.
isAutoRestart ==
    IF cfg.autorestart = "false" THEN FALSE
    ELSE IF cfg.autorestart = "true" THEN TRUE
    ELSE IF cmd.set /\ cmd.ps # <<>>
         THEN getExitCode[2] /\ ~inExitCodes(getExitCode[1])
         ELSE FALSE

\* finishCb of Start: finished = true and, for Start(true),
\* runCond.L.Unlock() and runCond.Signal(). Unlocking a mutex nobody holds
\* is a fatal error of the Go runtime: L is "broken" from then on.
finishCb ==
    IF ~rc.wait THEN rc
    ELSE [rc EXCEPT !.finished = TRUE,
                    !.L = IF rc.L = "free" THEN "broken"
                          ELSE IF rc.L = "broken" THEN "broken" ELSE "free",
                    !.pc = IF rc.pc = "parked" THEN "woken" ELSE rc.pc]

\* The first statement of a loop iteration: runCond.L.Lock() for Start(true).
LoopTop == IF rc.wait THEN "lock" ELSE "run"

\* --------------------------------------------------------------- the clock
Tick ==
    /\ now < MaxTime
    /\ now' = now + 1
    /\ ev' = "tau"
    /\ UNCHANGED <<cfg, pm, state, inStart, stopByUser, retryTimes, startTime, stopTime,
                   cmd, lock, pidfile, os, lp, st, wd, calls, rc>>

\* A running process ends on its own with an exit code.
ChildExit ==
    \E p \in Pids, code \in ChildExitCodes :
        /\ os[p].st = "alive"
        /\ os' = [os EXCEPT ![p] = Ended(p, code)]
        /\ lp' = NoteExit(p)
        /\ ev' = "tau"
        /\ UNCHANGED <<cfg, pm, state, inStart, stopByUser, retryTimes, startTime,
                       stopTime, cmd, lock, pidfile, now, st, wd, calls, rc>>

\* ------------------------------------------------------------ Process.Start
\* Start(false): the caller's part; the goroutine is lp.
Start ==
    /\ calls < MaxCalls
    /\ calls' = calls + 1
    /\ lock = "free"
    /\ IF inStart
       THEN /\ ev' = "tau"
            /\ UNCHANGED <<inStart, stopByUser, lp, rc>>
       ELSE /\ inStart' = TRUE
            /\ stopByUser' = FALSE
            /\ lp' = [IdleLoop EXCEPT !.pc = "init"]
            /\ rc' = [rc EXCEPT !.wait = FALSE]
            /\ ev' = "tau"
    /\ UNCHANGED <<cfg, pm, state, retryTimes, startTime, stopTime, cmd, lock, pidfile,
                   now, os, st, wd>>

\* Start(true), the caller up to go func(): as Start(false), then runCond is
\* made and runCond.L is locked before the goroutine is launched. One caller
\* of Start(true) is followed at a time.
StartWait ==
    /\ calls < MaxCalls
    /\ calls' = calls + 1
    /\ lock = "free"
    /\ IF inStart
       THEN /\ ev' = "tau"
            /\ UNCHANGED <<inStart, stopByUser, lp, rc>>
       ELSE /\ rc.pc = "idle"
            /\ inStart' = TRUE
            /\ stopByUser' = FALSE
            /\ lp' = [IdleLoop EXCEPT !.pc = "init"]
            /\ rc' = [wait |-> TRUE, L |-> "caller", pc |-> "check", finished |-> FALSE]
            /\ ev' = "tau"
    /\ UNCHANGED <<cfg, pm, state, retryTimes, startTime, stopTime, cmd, lock, pidfile,
                   now, os, st, wd>>

\* Start(true): if wait && !finished { runCond.Wait() ...: Wait puts the
\* caller on the notify list and unlocks runCond.L. With finished already
\* true the caller returns at once and runCond.L stays locked.
StartWaitCheck ==
    /\ rc.pc = "check"
    /\ IF rc.finished
       THEN /\ rc' = [rc EXCEPT !.pc = "idle"]
            /\ ev' = "StartReturn"
       ELSE /\ rc' = [rc EXCEPT !.pc = "parked",
                                !.L = IF rc.L = "caller" THEN "free" ELSE "broken"]
            /\ ev' = "tau"
    /\ UNCHANGED <<cfg, pm, state, inStart, stopByUser, retryTimes, startTime, stopTime,
                   cmd, lock, pidfile, now, os, lp, st, wd, calls>>

\* Start(true): runCond.Wait() was signalled and locks runCond.L again.
StartWaitRelock ==
    /\ rc.pc = "woken"
    /\ rc.L = "free"
    /\ rc' = [rc EXCEPT !.pc = "unlock", !.L = "caller"]
    /\ ev' = "tau"
    /\ UNCHANGED <<cfg, pm, state, inStart, stopByUser, retryTimes, startTime, stopTime,
                   cmd, lock, pidfile, now, os, lp, st, wd, calls>>

\* Start(true): runCond.L.Unlock() and return.
StartWaitUnlock ==
    /\ rc.pc = "unlock"
    /\ rc' = [rc EXCEPT !.pc = "idle",
                        !.L = IF rc.L = "caller" THEN "free" ELSE "broken"]
    /\ ev' = "StartReturn"
    /\ UNCHANGED <<cfg, pm, state, inStart, stopByUser, retryTimes, startTime, stopTime,
                   cmd, lock, pidfile, now, os, lp, st, wd, calls>>

\* The goroutine of Start(true): if wait { runCond.L.Lock() }.
loopLock ==
    /\ lp.pc = "lock"
    /\ rc.L = "free"
    /\ rc' = [rc EXCEPT !.L = "loop"]
    /\ lp' = [lp EXCEPT !.pc = "run"]
    /\ ev' = "tau"
    /\ UNCHANGED <<cfg, pm, state, inStart, stopByUser, retryTimes, startTime, stopTime,
                   cmd, lock, pidfile, now, os, st, wd, calls>>

\* go func(): p.retryTimes = 0
LoopInit ==
    /\ lp.pc = "init"
    /\ retryTimes' = 0
    /\ lp' = [lp EXCEPT !.pc = LoopTop]
    /\ ev' = "tau"
    /\ UNCHANGED <<cfg, pm, state, inStart, stopByUser, startTime, stopTime, cmd, lock,
                   pidfile, now, os, st, wd, calls, rc>>

\* run, up to cmd.Start(): parseCommand, the lock, exec.Command, setUser,
\* startTime and STARTING. An exited child's wait status is never
\* Continued(), so that early return is not taken.
runBegin ==
    /\ lp.pc = "run"
    /\ IF cfg.attempt = "emptycmd"
       THEN /\ lp' = [lp EXCEPT !.pc = "rm"]
            /\ rc' = finishCb
            /\ ev' = "RunAbort"
            /\ UNCHANGED <<cmd, startTime, state, lock>>
       ELSE /\ lock = "free"
            /\ cmd' = [set |-> TRUE, pid |-> 0, ps |-> <<>>]
            /\ IF cfg.attempt = "baduser"
               THEN /\ lp' = [lp EXCEPT !.pc = "rm"]
                    /\ rc' = finishCb
                    /\ ev' = "RunAbort"
                    /\ UNCHANGED <<startTime, state, lock>>
               ELSE /\ startTime' = now
                    /\ UNCHANGED rc
                    /\ changeStateTo(STARTING)
                    /\ lock' = "loop"
                    /\ lp' = [lp EXCEPT !.pc = "spawn"]
                    /\ ev' = "tau"
    /\ UNCHANGED <<cfg, pm, inStart, stopByUser, retryTimes, stopTime, pidfile, now, os,
                   st, wd, calls>>

\* run: cmd.Start() fails.
runSpawnFail ==
    /\ lp.pc = "spawn"
    /\ changeStateTo(FATAL)
    /\ stopTime' = now
    /\ lock' = "free"
    /\ lp' = [lp EXCEPT !.pc = "rm", !.fast = 0]
    /\ rc' = finishCb
    /\ ev' = "SpawnFail"
    /\ UNCHANGED <<cfg, pm, inStart, stopByUser, retryTimes, startTime, cmd, pidfile, now,
                   os, st, wd, calls>>

\* run: cmd.Start() succeeds; with startsecs <= 0 the state is RUNNING at
\* once, otherwise run sleeps startsecs with the lock held.
runSpawn ==
    /\ lp.pc = "spawn"
    /\ CanSpawn
    /\ os' = [os EXCEPT ![NextPid] = Alive]
    /\ cmd' = [cmd EXCEPT !.pid = NextPid]
    /\ IF getStartSeconds <= 0
       THEN /\ changeStateTo(RUNNING)
            /\ lock' = "free"
            /\ lp' = [lp EXCEPT !.pc = "wpid"]
       ELSE /\ lp' = [lp EXCEPT !.pc = "sleep"]
            /\ UNCHANGED <<state, lock>>
    /\ ev' = "tau"
    /\ UNCHANGED <<cfg, pm, inStart, stopByUser, retryTimes, startTime, stopTime, pidfile,
                   now, st, wd, calls, rc>>

\* runSlept without p.lock.Unlock(): run goes on to WriteFile and Wait with
\* the lock held.
runSleptKeepLock ==
    /\ lp.pc = "sleep"
    /\ now >= startTime + getStartSeconds
    /\ changeStateTo(RUNNING)
    /\ lp' = [lp EXCEPT !.pc = "wpid"]
    /\ ev' = "tau"
    /\ UNCHANGED <<cfg, pm, inStart, stopByUser, retryTimes, startTime, stopTime, cmd,
                   lock, pidfile, now, os, st, wd, calls, rc>>

\* run: the startsecs sleep is over; os.FindProcess succeeds on Unix whether
\* or not the process exists.
runSlept ==
    /\ lp.pc = "sleep"
    /\ now >= startTime + getStartSeconds
    /\ changeStateTo(RUNNING)
    /\ lock' = "free"
    /\ lp' = [lp EXCEPT !.pc = "wpid"]
    /\ ev' = "tau"
    /\ UNCHANGED <<cfg, pm, inStart, stopByUser, retryTimes, startTime, stopTime, cmd,
                   pidfile, now, os, st, wd, calls, rc>>

\* run: ioutil.WriteFile(p.pidfile, "<pid>:<startTime>") without the lock.
runWritePid ==
    /\ lp.pc = "wpid"
    /\ pidfile' = PidData(cmd.pid, startTime)
    /\ lp' = [lp EXCEPT !.pc = "wait"]
    /\ ev' = "tau"
    /\ UNCHANGED <<cfg, pm, state, inStart, stopByUser, retryTimes, startTime, stopTime,
                   cmd, lock, now, os, st, wd, calls, rc>>

\* run with finishCb() left out before p.cmd.Wait().
runWaitCallNoCb ==
    /\ lp.pc = "wait"
    /\ lp' = [lp EXCEPT !.pc = "waiting", !.wpid = cmd.pid, !.wcur = TRUE]
    /\ ev' = "tau"
    /\ UNCHANGED <<cfg, pm, state, inStart, stopByUser, retryTimes, startTime, stopTime,
                   cmd, lock, pidfile, now, os, st, wd, calls, rc>>

\* run: finishCb(), then p.cmd.Wait() is called on whatever p.cmd is now.
runWaitCall ==
    /\ lp.pc = "wait"
    /\ lp' = [lp EXCEPT !.pc = "waiting", !.wpid = cmd.pid, !.wcur = TRUE]
    /\ rc' = finishCb
    /\ ev' = "tau"
    /\ UNCHANGED <<cfg, pm, state, inStart, stopByUser, retryTimes, startTime, stopTime,
                   cmd, lock, pidfile, now, os, st, wd, calls>>

\* run: Wait returns. A process that is no child of this program cannot be
\* waited for and Wait fails at once; a child is reaped when it has ended
\* and its status is stored in the Cmd that Wait was called on.
runWaitReturn ==
    /\ lp.pc = "waiting"
    /\ IF lp.wpid \in ChildPids
       THEN /\ os[lp.wpid].st = "zombie"
            /\ os' = [os EXCEPT ![lp.wpid] = Gone]
            /\ cmd' = IF lp.wcur THEN [cmd EXCEPT !.ps = <<os[lp.wpid].code>>] ELSE cmd
       ELSE UNCHANGED <<os, cmd>>
    /\ lp' = [lp EXCEPT !.pc = "post", !.wpid = 0, !.wcur = FALSE]
    /\ ev' = "tau"
    /\ UNCHANGED <<cfg, pm, state, inStart, stopByUser, retryTimes, startTime, stopTime,
                   lock, pidfile, now, st, wd, calls, rc>>

\* runExited with "<=" in the place of "<".
runExitedAtMost ==
    /\ lp.pc = "post"
    /\ lock = "free"
    /\ stopTime' = now
    /\ IF now - startTime <= getStartSeconds
       THEN changeStateTo(BACKOFF)
       ELSE changeStateTo(EXITED)
    /\ lp' = [lp EXCEPT !.pc = "rm"]
    /\ ev' = "tau"
    /\ UNCHANGED <<cfg, pm, inStart, stopByUser, retryTimes, startTime, cmd, lock, pidfile,
                   now, os, st, wd, calls, rc>>

\* run: stopTime and BACKOFF or EXITED, under the lock.
runExited ==
    /\ lp.pc = "post"
    /\ lock = "free"
    /\ stopTime' = now
    /\ IF now - startTime < getStartSeconds
       THEN changeStateTo(BACKOFF)
       ELSE changeStateTo(EXITED)
    /\ lp' = [lp EXCEPT !.pc = "rm"]
    /\ ev' = "tau"
    /\ UNCHANGED <<cfg, pm, inStart, stopByUser, retryTimes, startTime, cmd, lock, pidfile,
                   now, os, st, wd, calls, rc>>

\* The loop after run without the reset of retryTimes.
loopAfterRunNoReset ==
    /\ lp.pc = "rm"
    /\ lock = "free"
    /\ pidfile' = NoFile
    /\ retryTimes' = IF stopTime - startTime < getStartSeconds
                     THEN retryTimes + 1 ELSE retryTimes
    /\ IF stopByUser \/ ~isAutoRestart \/ retryTimes' >= getStartRetries
       THEN /\ lp' = [lp EXCEPT !.pc = "end"]
            /\ ev' = "tau"
       ELSE /\ lp' = [lp EXCEPT !.pc = LoopTop]
            /\ ev' = "Retry"
    /\ UNCHANGED <<cfg, pm, state, inStart, stopByUser, startTime, stopTime, cmd, lock,
                   now, os, st, wd, calls, rc>>

\* The loop after run without its test of stopByUser.
loopAfterRunNoStop ==
    /\ lp.pc = "rm"
    /\ lock = "free"
    /\ pidfile' = NoFile
    /\ retryTimes' = IF stopTime - startTime < getStartSeconds
                     THEN retryTimes + 1 ELSE 0
    /\ IF ~isAutoRestart \/ retryTimes' >= getStartRetries
       THEN /\ lp' = [lp EXCEPT !.pc = "end"]
            /\ ev' = "tau"
       ELSE /\ lp' = [lp EXCEPT !.pc = LoopTop]
            /\ ev' = "Retry"
    /\ UNCHANGED <<cfg, pm, state, inStart, stopByUser, startTime, stopTime, cmd, lock,
                   now, os, st, wd, calls, rc>>

\* The restart loop after run: os.Remove(pidfile), retryTimes, and the three
\* ways out of the loop.
loopAfterRun ==
    /\ lp.pc = "rm"
    /\ lock = "free"
    /\ pidfile' = NoFile
    /\ retryTimes' = IF stopTime - startTime < getStartSeconds
                     THEN retryTimes + 1 ELSE 0
    /\ IF stopByUser \/ ~isAutoRestart \/ retryTimes' >= getStartRetries
       THEN /\ lp' = [lp EXCEPT !.pc = "end"]
            /\ ev' = "tau"
       ELSE /\ lp' = [lp EXCEPT !.pc = LoopTop]
            /\ ev' = "Retry"
    /\ UNCHANGED <<cfg, pm, state, inStart, stopByUser, startTime, stopTime, cmd, lock,
                   now, os, st, wd, calls, rc>>

\* The restart loop is over: inStart = false under the lock.
loopEnd ==
    /\ lp.pc = "end"
    /\ lock = "free"
    /\ inStart' = FALSE
    /\ lp' = IdleLoop
    /\ ev' = "tau"
    /\ UNCHANGED <<cfg, pm, state, stopByUser, retryTimes, startTime, stopTime, cmd, lock,
                   pidfile, now, os, st, wd, calls, rc>>

\* ----------------------------------------------------------- Process.Attach
\* The whole of Attach runs under the lock. ok and err label the step by
\* what the caller gets: nil, or the error of ReadFile, "empty pid file" or
\* the error of Signal.
AttachAs(ok, err) ==
    /\ calls < MaxCalls
    /\ calls' = calls + 1
    /\ lock = "free"
    /\ IF pidfile.kind = "none"
       THEN \* ioutil.ReadFile fails
            /\ changeStateTo(UNKNOWN)
            /\ ev' = err
            /\ UNCHANGED <<cmd, inStart, startTime, pidfile, lp>>
       ELSE IF pidfile.kind = "empty"
       THEN \* "empty pid file"
            /\ ev' = err
            /\ UNCHANGED <<state, cmd, inStart, startTime, pidfile, lp>>
       ELSE IF ~Exists(pidfile.pid)
       THEN \* proc.Signal(syscall.Signal(0)) fails
            /\ changeStateTo(STOPPED)
            /\ pidfile' = NoFile
            /\ ev' = err
            /\ UNCHANGED <<cmd, inStart, startTime, lp>>
       ELSE /\ cmd' = [set |-> TRUE, pid |-> pidfile.pid, ps |-> <<>>]
            /\ changeStateTo(RUNNING)
            /\ inStart' = TRUE
            \* strconv.Atoi(strings.TrimSpace(pidinfo[0]))
            /\ startTime' = pidfile.pid
            \* a Wait in progress goes on in the Cmd it was called on
            /\ lp' = [lp EXCEPT !.wcur = FALSE]
            /\ ev' = ok
            /\ UNCHANGED pidfile
    /\ UNCHANGED <<cfg, pm, stopByUser, retryTimes, stopTime, lock, now, os, st, wd, rc>>

Attach == AttachAs("AttachOk", "AttachErr")

\* ------------------------------------------------------------- Process.Stop
\* Stop(wait): os.Remove(pidfile) and stopByUser = true under the read
\* lock. One Stop call and one watchdog are followed at a time.
StopBegin ==
    \E wait \in BOOLEAN :
        /\ calls < MaxCalls
        /\ calls' = calls + 1
        /\ st.pc = "idle"
        /\ wd.pc = "idle"
        /\ lock = "free"
        /\ pidfile' = NoFile
        /\ stopByUser' = TRUE
        /\ st' = [pc |-> "sig", wait |-> wait, wake |-> 0, restart |-> "no"]
        /\ ev' = "tau"
        /\ UNCHANGED <<cfg, pm, state, inStart, retryTimes, startTime, stopTime, cmd, lock,
                       now, os, lp, wd, rc>>

\* Stop: ToSignal(stopsignal) and, if it resolved, p.Signal(sig); then the
\* deadline is taken and the watchdog is launched.
StopSignal ==
    \E ignore \in BOOLEAN :
        /\ st.pc = "sig"
        /\ IF ToSignalFails(cfg.stopsignal)
           THEN /\ ev' = "StopNoSignal"
                /\ UNCHANGED <<os, lp>>
           ELSE /\ lock = "free"
                /\ os' = sendSignal(cfg.stopsignal, ignore)
                /\ lp' = IF os' # os THEN NoteExit(cmd.pid) ELSE lp
                /\ ev' = IF sendSignalDelivers THEN "StopSignal" ELSE "StopNoSignal"
        /\ wd' = [pc |-> "poll", endTime |-> now + StopWaitSecs, wake |-> now]
        /\ st' = IF st.wait THEN [st EXCEPT !.pc = "poll", !.wake = now]
                 ELSE IdleStop
        /\ UNCHANGED <<cfg, pm, state, inStart, stopByUser, retryTimes, startTime, stopTime,
                       cmd, lock, pidfile, now, calls, rc>>

\* The watchdog: one round of its loop. endTime.Before(time.Now()) is true
\* once the clock is past the deadline second, and either way within it.
Watchdog ==
    \E past \in BOOLEAN :
        /\ wd.pc = "poll"
        /\ now >= wd.wake
        /\ IF state \notin Live
           THEN wd' = IdleWd
           ELSE IF now > wd.endTime \/ (now = wd.endTime /\ past)
           THEN wd' = [wd EXCEPT !.pc = "kill"]
           ELSE wd' = [wd EXCEPT !.wake = now + 1]
        /\ ev' = "tau"
        /\ UNCHANGED <<cfg, pm, state, inStart, stopByUser, retryTimes, startTime, stopTime,
                       cmd, lock, pidfile, now, os, lp, st, calls, rc>>

\* The watchdog: p.Signal(syscall.SIGKILL).
WatchdogKill ==
    /\ wd.pc = "kill"
    /\ lock = "free"
    /\ os' = sendSignal("KILL", FALSE)
    /\ lp' = IF os' # os THEN NoteExit(cmd.pid) ELSE lp
    /\ wd' = IdleWd
    /\ ev' = IF sendSignalDelivers THEN "Kill" ELSE "tau"
    /\ UNCHANGED <<cfg, pm, state, inStart, stopByUser, retryTimes, startTime, stopTime,
                   cmd, lock, pidfile, now, st, calls, rc>>

\* Stop(true): the caller polls the state once a second.
StopPoll ==
    /\ st.pc = "poll"
    /\ now >= st.wake
    /\ IF state \notin Live
       THEN /\ st' = IF st.restart = "no" THEN IdleStop ELSE [st EXCEPT !.pc = "start"]
            /\ ev' = "StopReturn"
       ELSE /\ st' = [st EXCEPT !.wake = now + 1]
            /\ ev' = "tau"
    /\ UNCHANGED <<cfg, pm, state, inStart, stopByUser, retryTimes, startTime, stopTime,
                   cmd, lock, pidfile, now, os, lp, wd, calls, rc>>

\* ---------------------------------------------------- supervisedService.Stop
\* p := s.procMgr.Find(s.Name); if p == nil { p.Stop(true) }; return nil.
\* With p == nil the call p.Stop(true) is a nil dereference that ends the
\* program; with a Process found, Stop is not called at all.
ServiceStop ==
    /\ calls < MaxCalls
    /\ calls' = calls + 1
    /\ pm.lock = "free"
    /\ Find(ServiceName) # NilProc
    /\ ev' = "ServiceStop"
    /\ UNCHANGED <<cfg, pm, state, inStart, stopByUser, retryTimes, startTime, stopTime,
                   cmd, lock, pidfile, now, os, lp, st, wd, rc>>

\* ------------------------------------- supervisedService.PID and .Status
\* checkRunning: Find, GetPid and, with pid 0, Attach and GetPid again. The
\* label is the error returned: PIDNil for nil, PIDErrNoProgram for
\* fmt.Errorf("couldn't find program"), PIDErrAttach for the error Attach
\* returned. No return of checkRunning gives ErrServiceIsNotRunning.
checkRunning ==
    /\ pm.lock = "free"
    /\ IF Find(ServiceName) = NilProc
       THEN /\ calls < MaxCalls
            /\ calls' = calls + 1
            /\ ev' = "PIDErrNoProgram"
            /\ UNCHANGED <<cfg, pm, state, inStart, stopByUser, retryTimes, startTime,
                           stopTime, cmd, lock, pidfile, now, os, lp, st, wd, rc>>
       ELSE IF GetPid # 0
       THEN /\ calls < MaxCalls
            /\ calls' = calls + 1
            /\ lock = "free"
            /\ ev' = IF GetPid = NilDeref THEN "PIDPanic" ELSE "PIDNil"
            /\ UNCHANGED <<cfg, pm, state, inStart, stopByUser, retryTimes, startTime,
                           stopTime, cmd, lock, pidfile, now, os, lp, st, wd, rc>>
       ELSE AttachAs("PIDNil", "PIDErrAttach")

\* The error PID() and Status() have just returned, "none" when the last
\* step was not a return of theirs.
PIDError ==
    IF ev = "PIDNil" THEN "nil"
    ELSE IF ev = "PIDErrNoProgram" THEN "couldn't find program"
    ELSE IF ev = "PIDErrAttach" THEN "error of Attach"
    ELSE "none"

\* ------------------------------------------------ supervisedService.Restart
\* Restart up to the first part of p.Stop(true): Find, then os.Remove(pidfile)
\* and stopByUser = true under the read lock.
RestartBegin ==
    /\ calls < MaxCalls
    /\ calls' = calls + 1
    /\ pm.lock = "free"
    /\ Find(ServiceName) # NilProc
    /\ st.pc = "idle"
    /\ wd.pc = "idle"
    /\ lock = "free"
    /\ pidfile' = NoFile
    /\ stopByUser' = TRUE
    /\ st' = [pc |-> "sig", wait |-> TRUE, wake |-> 0,
              restart |-> IF state = RUNNING /\ cmd.set /\ cmd.pid \in AliveChildren
                          THEN "running" ELSE "other"]
    /\ ev' = "tau"
    /\ UNCHANGED <<cfg, pm, state, inStart, retryTimes, startTime, stopTime, cmd, lock,
                   now, os, lp, wd, rc>>

\* Restart after p.Stop(true) has returned: p.Start(false), and Restart
\* returns. RestartNoop: the child was running when Restart was called and
\* Start found inStart true and did nothing.
RestartStart ==
    /\ st.pc = "start"
    /\ lock = "free"
    /\ IF inStart
       THEN /\ ev' = IF st.restart = "running" THEN "RestartNoop" ELSE "tau"
            /\ UNCHANGED <<inStart, stopByUser, lp, rc>>
       ELSE /\ inStart' = TRUE
            /\ stopByUser' = FALSE
            /\ lp' = [IdleLoop EXCEPT !.pc = "init"]
            /\ rc' = [rc EXCEPT !.wait = FALSE]
            /\ ev' = "RestartStarted"
    /\ st' = IdleStop
    /\ UNCHANGED <<cfg, pm, state, retryTimes, startTime, stopTime, cmd, lock, pidfile,
                   now, os, wd, calls>>

\* -------------------------------------------------------------------- Next
Next ==
    \/ Tick
    \/ ChildExit
    \/ Start
    \/ LoopInit
    \/ runBegin
    \/ runSpawnFail
    \/ runSpawn
    \/ runSlept
    \/ runWritePid
    \/ runWaitCall
    \/ runWaitReturn
    \/ runExited
    \/ loopAfterRun
    \/ loopEnd
    \/ Attach
    \/ StopBegin
    \/ StopSignal
    \/ Watchdog
    \/ WatchdogKill
    \/ StopPoll
    \/ ServiceStop

Spec == Init /\ [][Next]_vars

\* ------------------------------------------------------ Start on its own
\* A Process that is only started: no pidfile of an earlier supervisor, no
\* Stop, no Attach; startretries from 1 up to the bound.
ConfigsStart ==
    [attempt : {"ok", "emptycmd", "baduser"},
     autorestart : {"true", "false", "unexpected"},
     startsecs : 0..MaxStartSecs,
     stopsignal : {"TERM"},
     startretries : 1..StartRetries,
     exitcodes : {{0, 2}}]

InitStart ==
    /\ cfg \in ConfigsStart
    /\ state = STOPPED
    /\ inStart = FALSE
    /\ stopByUser = FALSE
    /\ retryTimes = 0
    /\ startTime = 0
    /\ stopTime = 0
    /\ cmd = NilCmd
    /\ lock = "free"
    /\ now = InitTime
    /\ pidfile = NoFile
    /\ os = [p \in Pids |-> IF p = OrphanPid THEN Gone ELSE Unborn]
    /\ lp = IdleLoop
    /\ st = IdleStop
    /\ wd = IdleWd
    /\ rc = IdleCond
    /\ pm = ServiceMgr
    /\ calls = 0
    /\ ev = "tau"

NextStart ==
    \/ Tick
    \/ ChildExit
    \/ Start
    \/ LoopInit
    \/ runBegin
    \/ runSpawnFail
    \/ runSpawn
    \/ runSlept
    \/ runWritePid
    \/ runWaitCall
    \/ runWaitReturn
    \/ runExited
    \/ loopAfterRun
    \/ loopEnd

SpecStart == InitStart /\ [][NextStart]_vars

\* ------------------------------------------------ the ProcessManager's calls
\* Everything but the manager and the label of the last step.
procVars == <<cfg, state, inStart, stopByUser, retryTimes, startTime, stopTime, cmd,
              lock, pidfile, now, os, lp, st, wd, rc, calls>>

Range(f) == {f[x] : x \in DOMAIN f}
\* pm.procs[name] = proc
Put(procs, name, proc) ==
    [n \in DOMAIN procs \cup {name} |-> IF n = name THEN proc ELSE procs[n]]
\* delete(pm.procs, name)
Delete(procs, name) == [n \in DOMAIN procs \ {name} |-> procs[n]]

\* A createProgram that makes a new Process whatever the map holds.
createProgramReplace(name) ==
    [pm EXCEPT !.procs = Put(pm.procs, name, NewProc(pm.nextId, name)),
               !.ret = NewProc(pm.nextId, name),
               !.nextId = pm.nextId + 1]

\* createProgram: the manager after the call, the Process returned in ret.
createProgram(name) ==
    IF name \in DOMAIN pm.procs
    THEN [pm EXCEPT !.ret = pm.procs[name]]
    ELSE [pm EXCEPT !.procs = Put(pm.procs, name, NewProc(pm.nextId, name)),
                    !.ret = NewProc(pm.nextId, name),
                    !.nextId = pm.nextId + 1]

\* CreateProcess(config) with config.Name = name, under pm.lock.
CreateProcessFor(name) ==
    /\ pm.lock = "free"
    /\ \/ name \in DOMAIN pm.procs
       \/ pm.nextId <= MaxProcs /\ Cardinality(DOMAIN pm.procs) < MaxEntries
    /\ pm' = createProgram(name)
    /\ ev' = "CreateProcess"
    /\ UNCHANGED procVars
CreateProcess == \E name \in Names : CreateProcessFor(name)

\* Add(name, proc) with a Process the caller holds: one of the map or the
\* one returned last.
Add ==
    \E name \in Names, proc \in (Range(pm.procs) \cup {pm.ret}) \ {NilProc} :
        /\ pm.lock = "free"
        /\ name \in DOMAIN pm.procs \/ Cardinality(DOMAIN pm.procs) < MaxEntries
        /\ pm' = [pm EXCEPT !.procs = Put(pm.procs, name, proc)]
        /\ ev' = "Add"
        /\ UNCHANGED procVars

\* A Remove that marks the Process it takes out as stopped by the user.
RemoveAndStop(name) ==
    /\ pm.lock = "free"
    /\ pm' = [pm EXCEPT !.procs = Delete(pm.procs, name),
                        !.ret = IF name \in DOMAIN pm.procs THEN pm.procs[name]
                                ELSE NilProc]
    /\ stopByUser' = TRUE
    /\ ev' = "Remove"
    /\ UNCHANGED <<cfg, state, inStart, retryTimes, startTime, stopTime, cmd,
                   lock, pidfile, now, os, lp, st, wd, rc, calls>>

\* Remove(name).
RemoveFor(name) ==
    /\ pm.lock = "free"
    /\ pm' = [pm EXCEPT !.procs = Delete(pm.procs, name),
                        !.ret = IF name \in DOMAIN pm.procs THEN pm.procs[name]
                                ELSE NilProc]
    /\ ev' = "Remove"
    /\ UNCHANGED procVars
Remove == \E name \in Names : RemoveFor(name)

\* Find(name), as a call: the label tells which branch answered.
FindFor(name) ==
    /\ pm.lock = "free"
    /\ pm' = [pm EXCEPT !.ret = Find(name)]
    /\ ev' = IF name \in DOMAIN pm.procs THEN "FindExact"
             ELSE IF Find(name) # NilProc THEN "FindSuffix" ELSE "FindNil"
    /\ UNCHANGED procVars
FindCall == \E name \in Names : FindFor(name)

\* Clear().
Clear ==
    /\ pm.lock = "free"
    /\ pm' = [pm EXCEPT !.procs = NoProcs]
    /\ ev' = "Clear"
    /\ UNCHANGED procVars

\* ForEachProcess(procFunc): pm.lock.Lock(), defer Unlock,
\* procs := pm.getAllProcess(). procFunc is proc.Stop(true), as in
\* StopAllProcesses, or a function that calls pm.Find.
ForEachBegin ==
    \E f \in {"Stop", "Find"} :
        /\ pm.lock = "free"
        /\ pm.fe.pc = "idle"
        /\ pm' = [pm EXCEPT !.lock = "foreach",
                            !.fe = [pc |-> "loop", f |-> f,
                                    todo |-> {<<n, pm.procs[n]>> : n \in DOMAIN pm.procs}]]
        /\ ev' = "tau"
        /\ UNCHANGED procVars

\* ForEachProcess: procFunc(proc) is called for the next Process. A procFunc
\* that calls pm.Find stops in pm.lock.Lock(): the mutex is held by this
\* very ForEachProcess and a sync.Mutex is not reentrant.
ForEachCall ==
    \E e \in pm.fe.todo :
        /\ pm.fe.pc = "loop"
        /\ pm' = [pm EXCEPT !.fe.todo = pm.fe.todo \ {e},
                            !.fe.pc = IF pm.fe.f = "Find" THEN "f_lock" ELSE "in_f"]
        /\ ev' = "tau"
        /\ UNCHANGED procVars

\* ForEachProcess: procFunc(proc) returns.
ForEachReturn ==
    /\ pm.fe.pc = "in_f"
    /\ pm' = [pm EXCEPT !.fe.pc = "loop"]
    /\ ev' = "tau"
    /\ UNCHANGED procVars

\* ForEachProcess: the range is over, the deferred Unlock runs.
ForEachEnd ==
    /\ pm.fe.pc = "loop"
    /\ pm.fe.todo = {}
    /\ pm' = [pm EXCEPT !.lock = "free", !.fe = IdleForEach]
    /\ ev' = "tau"
    /\ UNCHANGED procVars

\* A Process as NewProcess leaves it, nothing running.
FreshProcess ==
    /\ state = STOPPED
    /\ inStart = FALSE
    /\ stopByUser = FALSE
    /\ retryTimes = 0
    /\ startTime = 0
    /\ stopTime = 0
    /\ cmd = NilCmd
    /\ lock = "free"
    /\ now = InitTime
    /\ pidfile = NoFile
    /\ os = [p \in Pids |-> IF p = OrphanPid THEN Gone ELSE Unborn]
    /\ lp = IdleLoop
    /\ st = IdleStop
    /\ wd = IdleWd
    /\ rc = IdleCond
    /\ calls = 0
    /\ ev = "tau"

InitMgr ==
    /\ cfg \in {c \in Configs : c.attempt = "ok" /\ c.autorestart = "true"
                               /\ c.startsecs = 0 /\ c.stopsignal = "TERM"}
    /\ pm = NewProcessManager
    /\ FreshProcess

NextMgr ==
    \/ CreateProcess
    \/ Add
    \/ Remove
    \/ FindCall
    \/ Clear
    \/ ForEachBegin
    \/ ForEachCall
    \/ ForEachReturn
    \/ ForEachEnd

SpecMgr == InitMgr /\ [][NextMgr]_vars

\* ------------------------------------- the registry while the Process runs
\* The service's Process is started and its loop runs while the entry of the
\* service is taken out of the manager by Remove or Clear.
NextRemove ==
    \/ NextStart
    \/ Remove
    \/ Clear

SpecRemove == InitStart /\ [][NextRemove]_vars

\* What the restart loop does next.
LoopStep ==
    \/ loopLock
    \/ LoopInit
    \/ runBegin
    \/ runSpawnFail
    \/ runSpawn
    \/ runSlept
    \/ runWritePid
    \/ runWaitCall
    \/ runWaitReturn
    \/ runExited
    \/ loopAfterRun
    \/ loopEnd

\* ------------------------------------------------------- Start and Stop
\* A Process that is started and stopped, with no pidfile of an earlier
\* supervisor and no Attach.
NextStop ==
    \/ NextStart
    \/ StopBegin
    \/ StopSignal
    \/ Watchdog
    \/ WatchdogKill
    \/ StopPoll

SpecStop == InitStart /\ [][NextStop]_vars

\* The same for a Process that restarts its child whatever the exit: only
\* stopByUser and used-up retries end its loop. The goroutine of the restart
\* loop is scheduled; a child need not ever exit and the clock need not be
\* followed further than the bound.
InitStopLoop ==
    /\ InitStart
    /\ cfg.attempt = "ok"
    /\ cfg.autorestart = "true"
    /\ cfg.startretries = StartRetries
    /\ cfg.startsecs \in {0, MaxStartSecs}

SpecStopFair == InitStopLoop /\ [][NextStop]_vars /\ WF_vars(LoopStep)

\* ----------------------------------------------- calls while run waits
\* The Process of SpecStopFair with Attach among the calls.
NextLock ==
    \/ NextStop
    \/ Attach

SpecLock == InitStopLoop /\ [][NextLock]_vars

\* ------------------------------------------------ Attach to a live process
\* The Process of a supervisor that comes up while the child of an earlier
\* one is running under the pid its pidfile names. Every call that can be
\* made is made and every goroutine is scheduled, up to the bounds.
InitAttach ==
    /\ Init
    /\ cfg.attempt = "ok"
    /\ cfg.autorestart = "true"
    /\ cfg.startretries = StartRetries
    /\ cfg.stopsignal = "TERM"
    /\ pidfile = PidData(OrphanPid, InitTime - 1)
    /\ os[OrphanPid] = Alive

SpecAttach == InitAttach /\ [][NextLock]_vars /\ WF_vars(NextLock)

\* ------------------------------------------- Stop, and Start once it is back
\* One caller that makes its calls one after the other, as Restart does with
\* p.Stop(true); p.Start(false): Start is called when no Stop call is under
\* way. The watchdog of the last Stop may still be polling.
StartAfterStop ==
    /\ st.pc = "idle"
    /\ Start

NextSeq ==
    \/ Tick
    \/ ChildExit
    \/ StartAfterStop
    \/ LoopInit
    \/ runBegin
    \/ runSpawnFail
    \/ runSpawn
    \/ runSlept
    \/ runWritePid
    \/ runWaitCall
    \/ runWaitReturn
    \/ runExited
    \/ loopAfterRun
    \/ loopEnd
    \/ StopBegin
    \/ StopSignal
    \/ Watchdog
    \/ WatchdogKill
    \/ StopPoll

SpecSeq == InitStart /\ [][NextSeq]_vars

\* -------------------------------------------------- supervisedService.Update
\* The Process the registry holds has a child running, OldChild, and its
\* restart loop is in cmd.Wait(); its pidfile names OldChild. The variables
\* of the Process are those of the one Update is going to make: NewProcess
\* gives it the same pidfile path, directory and name being the same.
OldChild == OrphanPid + 1

InitUpdate ==
    /\ cfg \in ConfigsStart
    /\ cfg.attempt = "ok"
    /\ state = STOPPED
    /\ inStart = FALSE
    /\ stopByUser = FALSE
    /\ retryTimes = 0
    /\ startTime = 0
    /\ stopTime = 0
    /\ cmd = NilCmd
    /\ lock = "free"
    /\ now = InitTime
    /\ pidfile = PidData(OldChild, InitTime - 1)
    /\ os = [p \in Pids |-> IF p = OldChild THEN Alive
                            ELSE IF p = OrphanPid THEN Gone
                            ELSE Unborn]
    /\ lp = IdleLoop
    /\ st = IdleStop
    /\ wd = IdleWd
    /\ rc = IdleCond
    /\ pm = ServiceMgr
    /\ calls = 0
    /\ ev = "tau"

\* Update has made the new Process.
Updated == pm.nextId > ServiceMgr.nextId

\* Update: p.Stop(false) on the Process found (os.Remove(pidfile), the stop
\* signal to its child), Remove, CreateProcess(parseConfig()) and
\* Start(false) on the Process made. The watchdog of the Stop is not
\* followed: the old child ends when it ends.
Update ==
    \E ignore \in BOOLEAN :
        /\ calls < MaxCalls
        /\ calls' = calls + 1
        /\ ~Updated
        /\ pm.lock = "free"
        /\ Find(ServiceName) # NilProc
        /\ pidfile' = NoFile
        /\ os' = IF ToSignalFails(cfg.stopsignal) THEN os
                 ELSE Kill(OldChild, cfg.stopsignal, ignore)
        /\ pm' = [pm EXCEPT !.procs = Put(Delete(pm.procs, ServiceName), ServiceName,
                                          NewProc(pm.nextId, ServiceName)),
                            !.ret = NewProc(pm.nextId, ServiceName),
                            !.nextId = pm.nextId + 1]
        /\ inStart' = TRUE
        /\ stopByUser' = FALSE
        /\ lp' = [IdleLoop EXCEPT !.pc = "init"]
        /\ rc' = [rc EXCEPT !.wait = FALSE]
        /\ ev' = "Update"
        /\ UNCHANGED <<cfg, state, retryTimes, startTime, stopTime, cmd, lock, now, st, wd>>

\* The restart loop of the Process Update took out of the registry: its
\* cmd.Wait() returns once the old child has ended, run returns and the
\* loop does os.Remove(p.pidfile); stopByUser is true and the loop ends.
oldLoopAfterRun ==
    /\ Updated
    /\ os[OldChild].st = "zombie"
    /\ os' = [os EXCEPT ![OldChild] = Gone]
    /\ pidfile' = NoFile
    /\ ev' = "tau"
    /\ UNCHANGED <<cfg, pm, state, inStart, stopByUser, retryTimes, startTime, stopTime,
                   cmd, lock, now, lp, st, wd, calls, rc>>

\* Stop called on the Process Update made.
StopAgain ==
    /\ Updated
    /\ StopBegin

NextUpdate ==
    \/ Tick
    \/ ChildExit
    \/ Update
    \/ oldLoopAfterRun
    \/ LoopInit
    \/ runBegin
    \/ runSpawnFail
    \/ runSpawn
    \/ runSlept
    \/ runWritePid
    \/ runWaitCall
    \/ runWaitReturn
    \/ runExited
    \/ loopAfterRun
    \/ loopEnd
    \/ StopAgain
    \/ StopSignal
    \/ Watchdog
    \/ WatchdogKill
    \/ StopPoll

SpecUpdate == InitUpdate /\ [][NextUpdate]_vars

\* ------------------------------------------------- the supervised adapter
\* The service is started and then asked for its pid or restarted.
NextAdapter ==
    \/ NextStart
    \/ checkRunning
    \/ RestartBegin
    \/ StopSignal
    \/ Watchdog
    \/ WatchdogKill
    \/ StopPoll
    \/ RestartStart

SpecAdapter == InitStart /\ [][NextAdapter]_vars

\* --------------------------------------------------- Start(true) on its own
\* The clock goes on past MaxTime for as long as run's startsecs sleep
\* needs it: a sleep always ends.
TickSleep ==
    /\ now >= MaxTime
    /\ lp.pc = "sleep"
    /\ now < startTime + getStartSeconds
    /\ now' = now + 1
    /\ ev' = "tau"
    /\ UNCHANGED <<cfg, pm, state, inStart, stopByUser, retryTimes, startTime, stopTime,
                   cmd, lock, pidfile, os, lp, st, wd, rc, calls>>

NextWait ==
    \/ Tick
    \/ TickSleep
    \/ ChildExit
    \/ StartWait
    \/ StartWaitCheck
    \/ StartWaitRelock
    \/ StartWaitUnlock
    \/ LoopStep

\* The goroutines are scheduled and the clock runs (weak fairness); a
\* sync.Mutex hands the lock to a goroutine that keeps waiting for it (strong
\* fairness of the caller's Lock). A child need not ever exit.
SpecWait ==
    /\ InitStart
    /\ [][NextWait]_vars
    /\ WF_vars(Tick \/ TickSleep)
    /\ WF_vars(LoopStep)
    /\ WF_vars(StartWaitCheck)
    /\ WF_vars(StartWaitUnlock)
    /\ SF_vars(StartWaitRelock)

\* ------------------------------------------------- isAutoRestart on its own
\* The Process states isAutoRestart is asked in: every autorestart value,
\* exitcodes lists over the codes a child returns, and a cmd that is nil,
\* has no ProcessState, or holds the wait status of an ended child.
ConfigsAuto ==
    [attempt : {"ok"},
     autorestart : {"true", "false", "unexpected"},
     startsecs : {MaxStartSecs},
     stopsignal : {"TERM"},
     startretries : {StartRetries},
     exitcodes : SUBSET ChildExitCodes]
CmdsAuto ==
    {NilCmd} \cup
    [set : {TRUE}, pid : ChildPids,
     ps : {<<>>} \cup {<<c>> : c \in ChildExitCodes \cup {Signalled}}]

InitAuto ==
    /\ cfg \in ConfigsAuto
    /\ cmd \in CmdsAuto
    /\ state \in {STOPPED, EXITED, FATAL}
    /\ inStart = TRUE
    /\ stopByUser = FALSE
    /\ retryTimes = 0
    /\ startTime = 0
    /\ stopTime = 0
    /\ lock = "free"
    /\ now = InitTime
    /\ pidfile = NoFile
    /\ os = [p \in Pids |-> IF p = cmd.pid THEN Gone ELSE Unborn]
    /\ lp = [IdleLoop EXCEPT !.pc = "rm"]
    /\ st = IdleStop
    /\ wd = IdleWd
    /\ rc = IdleCond
    /\ pm = ServiceMgr
    /\ calls = 1
    /\ ev = "tau"

\* The restart loop asks p.isAutoRestart().
AutoRestartCall ==
    /\ lp.pc = "rm"
    /\ lock = "free"
    /\ ev' = IF isAutoRestart THEN "AutoRestart" ELSE "NoAutoRestart"
    /\ lp' = [lp EXCEPT !.pc = "asked"]
    /\ UNCHANGED <<cfg, pm, state, inStart, stopByUser, retryTimes, startTime, stopTime,
                   cmd, lock, pidfile, now, os, st, wd, calls, rc>>

NextAuto == AutoRestartCall

SpecAuto == InitAuto /\ [][NextAuto]_vars

TypeOK ==
    /\ cfg \in Configs
    /\ state \in ProcessState
    /\ inStart \in BOOLEAN
    /\ stopByUser \in BOOLEAN
    /\ retryTimes \in 0..StartRetries
    /\ calls \in 0..MaxCalls
    /\ startTime \in 0..MaxTime
    /\ stopTime \in 0..MaxTime
    /\ lock \in {"free", "loop"}
    /\ now \in InitTime..MaxTime
    /\ lp.pc \in {"idle", "init", "run", "spawn", "sleep", "wpid", "wait", "waiting",
                  "post", "rm", "end"}
    /\ st.pc \in {"idle", "sig", "poll", "start"}
    /\ wd.pc \in {"idle", "poll", "kill"}
    \* the one loop slot of the model is enough: no loop without inStart
    /\ (lp.pc # "idle" => inStart)
    /\ (lock = "loop" <=> lp.pc \in {"spawn", "sleep"})

\* ------------------------------------------------------------------ claims
\* C1: with autorestart=true, startsecs >= 1 and startretries = N, when the
\* child ends within startsecs of every spawn the loop does not go back to
\* run once N children in a row ended that fast, and the loop that gave up
\* leaves state FATAL, GetPid() 0, no pidfile and stopByUser false.
C1_QuickExitGivesUp ==
    (cfg.attempt = "ok" /\ cfg.autorestart = "true" /\ cfg.startsecs >= 1) =>
        /\ ~(lp.fast >= getStartRetries /\ lp.pc = "run")
        /\ (lp.fast >= getStartRetries /\ lp.pc = "end" /\ ~stopByUser) =>
              /\ state = FATAL
              /\ GetPid = 0
              /\ pidfile.kind = "none"

\* C2: a failed cmd.Start() leaves state FATAL with stopTime recorded, and
\* the restart loop does not call run again after it, whatever autorestart
\* says.
C2_SpawnFailureIsFinal ==
    /\ (ev = "SpawnFail" => state = FATAL /\ stopTime = now)
    /\ ~(ev = "Retry" /\ state = FATAL)

\* C3: when run gives up before spawning, because the command is empty or
\* the user lookup failed, the state is FATAL.
C3_AbortIsFatal == ev = "RunAbort" => state = FATAL

\* C4: under any interleaving of Start, Stop, Attach and child exits there
\* is at most one restart loop and at most one running child of the Process.
C4_OneLoopOneChild ==
    /\ (lp.pc # "idle" => inStart)
    /\ Cardinality(AliveChildren) <= 1

\* C5: Stop(wait=true) on a RUNNING Process, started by the loop or adopted
\* by Attach, returns in the end: it is never left polling a live state
\* after the escalation is over and the process is gone with no restart loop
\* there to record the exit; and when it returns the state is none of
\* STARTING, RUNNING, STOPPING.
C5_StopWaitReturns ==
    /\ ~(/\ cfg.stopsignal # ""
         /\ st.pc = "poll"
         /\ state = RUNNING
         /\ wd.pc = "idle"
         /\ lp.pc = "idle"
         /\ cmd.set
         /\ ~Exists(cmd.pid))
    /\ (ev = "StopReturn" => state \notin Live)

\* C6: with a stop signal configured, Stop delivers it to the running
\* process; the watchdog delivers SIGKILL only while the state is still
\* STARTING, RUNNING or STOPPING; and when the watchdog has killed the
\* process, run is there to take the exit and move the state out of RUNNING.
C6_StopEscalation ==
    cfg.stopsignal # "" =>
        /\ (ev = "StopNoSignal" => ~(cmd.set /\ cmd.pid # 0 /\ os[cmd.pid].st = "alive"))
        /\ (ev = "Kill" => state \in Live)
        /\ (ev = "Kill" /\ state = RUNNING => lp.pc # "idle")

\* C7: supervisedService.Stop on a registered Process calls Process.Stop(true),
\* so when it has returned on a running service the state is no longer
\* RUNNING.
C7_ServiceStopStops ==
    ev = "ServiceStop" => state # RUNNING

\* C8: Attach on a fresh Process, with the pidfile run wrote for a process
\* that is still alive, gives state RUNNING, inStart true, GetPid() the
\* pid of the file and startTime the epoch second of the file.
C8_AttachRoundTrip ==
    (ev = "AttachOk" /\ calls = 1) =>
        /\ state = RUNNING
        /\ inStart
        /\ GetPid = pidfile.pid
        /\ startTime = pidfile.epoch

\* C9: an Attach that returns an error leaves the state STOPPED or UNKNOWN
\* and no pidfile behind.
C9_AttachFailureCleans ==
    ev = "AttachErr" => state \in {STOPPED, UNKNOWN} /\ pidfile.kind = "none"

\* C10: whenever GetPid() can take the lock, it is above 0 exactly in state
\* RUNNING, it is 0 in STOPPED, FATAL, UNKNOWN, EXITED and BACKOFF, and in
\* state RUNNING the process handle is set with a pid above 0.
C10_PidIffRunning ==
    lock = "free" =>
        /\ (GetPid > 0 <=> state = RUNNING)
        /\ (state \in {STOPPED, FATAL, UNKNOWN, EXITED, BACKOFF} => GetPid = 0)
        /\ (state = RUNNING => cmd.set /\ cmd.pid > 0)

\* The child of p.cmd ended in a way exitcodes does not list: with an exit
\* code outside exitcodes, or by a signal.
EndedUnexpected ==
    /\ cmd.set
    /\ cmd.ps # <<>>
    /\ (cmd.ps[1] = Signalled \/ cmd.ps[1] \notin cfg.exitcodes)

\* C11: isAutoRestart is true for autorestart "true", false for "false",
\* and for "unexpected" it is true exactly when the child ended with an exit
\* code that is not in exitcodes or was ended by a signal.
C11_AutoRestart ==
    ev \in {"AutoRestart", "NoAutoRestart"} =>
        /\ (cfg.autorestart = "true" => ev = "AutoRestart")
        /\ (cfg.autorestart = "false" => ev = "NoAutoRestart")
        /\ (cfg.autorestart = "unexpected" => (ev = "AutoRestart" <=> EndedUnexpected))

\* C11 happens: with autorestart "unexpected" a child ended by a signal has
\* been judged, and the answer was to restart.
C11_Witness ==
    /\ ev = "AutoRestart"
    /\ cfg.autorestart = "unexpected"
    /\ cmd.ps = <<Signalled>>

\* The last child of the loop returned an exit code that exitcodes lists,
\* under autorestart=unexpected.
EndedExpected ==
    /\ cfg.autorestart = "unexpected"
    /\ cmd.set
    /\ cmd.ps # <<>>
    /\ cmd.ps[1] \in cfg.exitcodes

\* C12: with autorestart=unexpected and exitcodes=0,2, after a child that
\* exited with code 2 (or 0) the restart loop does not go back to run, and
\* when it has ended the state is EXITED and retryTimes is 0.
C12_ExpectedExitStops ==
    EndedExpected =>
        /\ ev # "Retry"
        /\ lp.pc \notin {"spawn", "sleep", "wpid", "wait", "waiting"}
        /\ (lp.pc \in {"rm", "end", "idle"} => state = EXITED)
        /\ (lp.pc \in {"end", "idle"} => retryTimes = 0)

\* C12 happens: the loop has ended after a child that exited with code 2.
C12_Witness ==
    /\ EndedExpected
    /\ cmd.ps = <<2>>
    /\ lp.pc = "idle"
    /\ ~inStart
    /\ state = EXITED

\* C13: with autorestart=unexpected the restart loop retries after an exit
\* code outside exitcodes, but no more than startretries times for one
\* Start: it does not decide to run again when startretries + 1 children
\* have been spawned.
C13_UnexpectedRetriesBounded ==
    (cfg.autorestart = "unexpected" /\ calls = 1) =>
        ~(ev = "Retry" /\ Cardinality(Spawned) > cfg.startretries)

\* C14: Start(true) returns only after finishCb of the first run, runCond.L
\* is never unlocked while nobody holds it, and a caller inside Start(true)
\* always returns, whether or not the child ever exits.
C14_StartWaitReturns ==
    /\ [](rc.L # "broken")
    /\ [](ev = "StartReturn" => rc.finished)
    /\ ((rc.pc # "idle") ~> (rc.pc = "idle"))

\* C14 happens: Start(true) has returned while the child it spawned is
\* still running and run waits for it.
C14_Witness ==
    /\ ev = "StartReturn"
    /\ lp.pc = "waiting"
    /\ cmd.set
    /\ cmd.pid \in ChildPids
    /\ os[cmd.pid].st = "alive"

\* C15: ForEachProcess does not hold the manager mutex while f runs: f is
\* never stopped in a manager call by the mutex its own ForEachProcess
\* holds, and the mutex is free for other threads while f runs.
C15_ForEachReleasesLock ==
    /\ ~(pm.fe.pc = "f_lock" /\ pm.lock = "foreach")
    /\ (pm.fe.pc = "in_f" => pm.lock = "free")

\* C16: CreateProcess is idempotent on the name of the config. When the map
\* holds an entry under that name the call returns that very Process and
\* leaves the map as it was; otherwise the map gains exactly one entry, under
\* that name, a new STOPPED Process of that config, and the call returns it.
\* Either way the call returns what the map then holds under the name, so
\* callers that pass the same name one after the other get the same Process.
C16_CreateProcessIdempotent ==
    [][\A name \in Names :
          CreateProcessFor(name) =>
              /\ pm'.ret = pm'.procs[name]
              /\ IF name \in DOMAIN pm.procs
                 THEN /\ pm'.procs = pm.procs
                      /\ pm'.ret = pm.procs[name]
                 ELSE /\ DOMAIN pm'.procs = DOMAIN pm.procs \cup {name}
                      /\ \A n \in DOMAIN pm.procs : pm'.procs[n] = pm.procs[n]
                      /\ pm'.procs[name].state = STOPPED
                      /\ pm'.procs[name].name = name
                      /\ pm'.procs[name] \notin Range(pm.procs) \cup {pm.ret}]_vars

\* CreateProcess has just returned a Process that was in the map already: it
\* was made for another name and put under this one by Add.
C16_Witness ==
    /\ ev = "CreateProcess"
    /\ \E n \in DOMAIN pm.procs : pm.procs[n] = pm.ret /\ pm.ret.name # n

\* C17: Find(name) returns the Process registered under exactly name when
\* there is one; otherwise, when name holds a ":", the Process registered
\* under what follows the first ":", nil when there is none; otherwise nil.
\* Find leaves the registry as it was. When "n" is the only name registered,
\* Find("g:n") is Find("n").
C17_FindExactThenSuffix ==
    /\ [][\A name \in Names :
            FindFor(name) =>
                /\ pm'.procs = pm.procs
                /\ pm'.ret =
                     IF name \in DOMAIN pm.procs THEN pm.procs[name]
                     ELSE IF \E i \in 1..Len(name) : name[i] = ":"
                     THEN LET i == CHOOSE k \in 1..Len(name) :
                                      /\ name[k] = ":"
                                      /\ \A j \in 1..(k - 1) : name[j] # ":"
                              rest == SubSeq(name, i + 1, Len(name))
                          IN  IF rest \in DOMAIN pm.procs THEN pm.procs[rest] ELSE NilProc
                     ELSE NilProc]_vars
    /\ [](DOMAIN pm.procs = {GroupName(0)} =>
             /\ Find(GroupName(1)) = Find(GroupName(0))
             /\ Find(GroupName(0)) = pm.procs[GroupName(0)])

\* Find has just answered by the suffix rule with the only Process
\* registered, and a name whose last ":" but not whose first ":" is followed
\* by the registered name finds nothing.
C17_Witness ==
    /\ ev = "FindSuffix"
    /\ pm.ret # NilProc
    /\ DOMAIN pm.procs = {GroupName(0)}
    /\ Find(GroupName(1)) = pm.procs[GroupName(0)]
    /\ Find(GroupName(2)) = NilProc

\* C18: Remove(name) takes the entry out of the map, returns the Process that
\* was under it (nil when there was none) and touches nothing else: state,
\* inStart, stopByUser, the child, the pidfile and the position of the
\* restart loop of the Process are as before, and so is every operating
\* system process. Clear empties the map and likewise stops no child.
C18_RemoveLeavesProcess ==
    [][/\ \A name \in Names :
            RemoveFor(name) =>
                /\ pm'.procs = Delete(pm.procs, name)
                /\ pm'.ret = IF name \in DOMAIN pm.procs THEN pm.procs[name] ELSE NilProc
                /\ UNCHANGED <<state, inStart, stopByUser, retryTimes, cmd, pidfile, os, lp>>
       /\ Clear =>
                /\ pm'.procs = NoProcs
                /\ UNCHANGED <<state, inStart, stopByUser, retryTimes, cmd, pidfile, os, lp>>]_vars

\* Remove has just taken out the Process of the service while its loop was
\* running and its child alive.
C18_Witness ==
    /\ ev = "Remove"
    /\ pm.ret = procMgr[ServiceName]
    /\ ServiceName \notin DOMAIN pm.procs
    /\ inStart
    /\ lp.pc # "idle"
    /\ state = RUNNING
    /\ AliveChildren # {}

\* C19: PID() and Status() of the supervised service, called while no child
\* of the service is alive, return ErrServiceIsNotRunning: not nil and not
\* another error value.
C19_NotRunningSentinel ==
    (PIDError # "none" /\ AliveChildren = {}) => PIDError = "ErrServiceIsNotRunning"

\* C20: the Start(false) of a Restart called with the child running is never
\* a no-op: when Stop(true) has returned, the loop it stopped has set inStart
\* to false already.
C20_RestartStartTakesEffect == ev # "RestartNoop"

\* C21: with no stopsignal configured, Stop sends TERM to the child: the
\* first part of Stop never ends without a signal sent while the child of
\* p.cmd is running.
C21_UnsetStopSignalSendsTerm ==
    (cfg.stopsignal = "" /\ ev = "StopNoSignal") =>
        ~(cmd.set /\ cmd.pid # 0 /\ os[cmd.pid].st = "alive")

\* C22: the pidfile is there exactly while the supervisor takes a child to be
\* alive. It is written after a successful spawn and names that child; it is
\* absent when the loop goes back to run and when the loop has ended; and
\* Stop has removed it when it sends the stop signal.
C22_PidfileIffChild ==
    /\ (pidfile.kind = "data" => cmd.set /\ cmd.pid = pidfile.pid /\ pidfile.pid \in Spawned)
    /\ (ev = "Retry" => pidfile.kind = "none")
    /\ (~inStart /\ lp.pc = "idle" => pidfile.kind = "none")
    /\ (ev \in {"StopSignal", "StopNoSignal"} => pidfile.kind = "none")

\* C23: once stopByUser is true while the restart loop is active, it stays
\* true as long as the loop is, the loop does not go back to the top after
\* the run it is in or about to make, and when that run has returned the
\* loop ends and sets inStart to false.
C23_StopByUserEndsLoop ==
    /\ [][(stopByUser /\ inStart /\ lp.pc # "idle") => (stopByUser' \/ ~inStart')]_vars
    /\ [][(stopByUser /\ lp.pc \notin {"idle", "init", "lock", "run"})
            => lp'.pc \notin {"lock", "run"}]_vars
    /\ ((stopByUser /\ lp.pc = "rm") ~> ~inStart)

\* The loop of a Process that restarts its child always, and whose retries
\* are not used up, has ended after a child ran: stopByUser ended it.
C23_Witness ==
    /\ stopByUser
    /\ ~inStart
    /\ lp.pc = "idle"
    /\ cfg.attempt = "ok"
    /\ cfg.autorestart = "true"
    /\ retryTimes < getStartRetries
    /\ state = EXITED
    /\ Spawned # {}

\* C24: when Stop(true) returns, no child of the Process is running and the
\* restart loop is not on its way to spawn one; and when a Stop and its
\* watchdog are over and no Start came after, no child is running.
C24_StopIsSafe ==
    /\ (ev = "StopReturn" =>
            /\ AliveChildren = {}
            /\ lp.pc \notin {"init", "lock", "run", "spawn"})
    /\ (stopByUser /\ st.pc = "idle" /\ wd.pc = "idle" => AliveChildren = {})

\* C25: after each run the restart loop adds one to retryTimes when
\* stopTime - startTime is below startsecs and sets it to 0 otherwise, and
\* nothing else in a running loop changes retryTimes; so retryTimes counts
\* the short runs since the last run that was not short, and it is 0 when
\* the loop has judged a run whose uptime was startsecs or more.
C25_RetryTimesCountsShortRuns ==
    /\ [][(lp.pc = "rm" /\ lp'.pc # "rm") =>
             retryTimes' = IF stopTime - startTime < cfg.startsecs
                           THEN retryTimes + 1 ELSE 0]_vars
    /\ [][(lp.pc \notin {"idle", "init", "rm"}) => retryTimes' = retryTimes]_vars
    /\ []((ev = "Retry" \/ lp.pc = "end") /\ stopTime - startTime >= cfg.startsecs
             => retryTimes = 0)

\* The loop goes back to run with retryTimes 1 after a run that was short:
\* cmd.Start() failed with startsecs 1.
C25_Witness ==
    /\ ev = "Retry"
    /\ retryTimes = 1
    /\ state = FATAL
    /\ stopTime - startTime < cfg.startsecs

\* C26: when cmd.Wait() has returned, run sets stopTime to the time it is
\* and the state to BACKOFF when stopTime - startTime is below startsecs,
\* to EXITED otherwise; and the loop, judging that run, adds one to
\* retryTimes exactly when the state run left is BACKOFF and sets it to 0
\* exactly when it is EXITED.
C26_ExitClassAgrees ==
    /\ [][(lp.pc = "post" /\ lp'.pc = "rm") =>
             /\ stopTime' = now
             /\ state' = IF stopTime' - startTime < cfg.startsecs THEN BACKOFF ELSE EXITED]_vars
    /\ [][(lp.pc = "rm" /\ lp'.pc # "rm" /\ state \in {BACKOFF, EXITED}) =>
             /\ (state = BACKOFF => retryTimes' = retryTimes + 1)
             /\ (state = EXITED => retryTimes' = 0)]_vars

\* The loop has judged a run whose child ran for startsecs and more, with
\* startsecs 1: EXITED, and retryTimes 0.
C26_Witness ==
    /\ lp.pc = "end"
    /\ cfg.startsecs = 1
    /\ cmd.ps # <<>>
    /\ state = EXITED
    /\ stopTime - startTime >= cfg.startsecs
    /\ retryTimes = 0

\* C27: while run is in cmd.Wait() the Process lock is free, so a call that
\* takes the lock goes through without the child exiting: GetPid and
\* GetDescription, Attach, the first part of Stop, and the Signal of Stop.
C27_WaitHoldsNoLock ==
    lp.pc = "waiting" =>
        /\ lock = "free"
        /\ (calls < MaxCalls => ENABLED Attach)
        /\ (calls < MaxCalls /\ st.pc = "idle" /\ wd.pc = "idle" => ENABLED StopBegin)
        /\ (st.pc = "sig" => ENABLED StopSignal)

\* Attach has gone through while run waits for a child that is running,
\* with startsecs 1.
C27_Witness ==
    /\ ev = "AttachOk"
    /\ lp.pc = "waiting"
    /\ cfg.startsecs = 1
    /\ lp.wpid \in AliveChildren

\* C28: only the restart loop writes startTime, stopTime, state and cmd, and
\* Stop reads the state holding the Process lock: a step that changes one of
\* the four fields is a step of the loop, and a round of the poll loop of
\* Stop(true) or of the watchdog is taken with the lock free.
C28_OnlyLoopWritesUnderLock ==
    /\ [][(state' # state \/ cmd' # cmd \/ startTime' # startTime \/ stopTime' # stopTime)
            => LoopStep]_vars
    /\ [][(st.pc = "poll" /\ st' # st) \/ (wd.pc = "poll" /\ wd' # wd)
            => lock = "free"]_vars

\* C29: after any sequence of CreateProcess, Add, Remove and Clear every
\* entry of the map is under the name of its own config:
\* procs[name].config.Name = name.
C29_EntryNameIsKey ==
    \A name \in DOMAIN pm.procs : pm.procs[name].name = name

\* C30: with startsecs > 0 the state goes from STARTING to RUNNING only when
\* the child has not exited during the startsecs sleep: a child that exited
\* before startsecs had passed never shows as RUNNING. lp.fast > 0 with the
\* child of cmd no longer running says that this child ended before
\* startTime + startsecs.
C30_RunningOnlyIfChildExists ==
    [][(getStartSeconds > 0 /\ state = STARTING /\ state' = RUNNING)
          => (cmd.pid \in AliveChildren \/ lp.fast = 0)]_vars

\* C31: the watchdog of a Stop delivers SIGKILL only to the child that was
\* there when the Stop was issued, never to a child spawned by a Start issued
\* after the Stop returned. With calls made one after the other, stopByUser
\* is false only when a Start has gone through since the Stop returned, and
\* the child of cmd that runs then is the one its loop spawned: so the
\* watchdog's SIGKILL reaches a running process only while stopByUser is
\* still true.
C31_WatchdogKillsOnlyStoppedChild ==
    [][(wd.pc = "kill" /\ wd'.pc = "idle" /\ os' # os) => stopByUser]_vars

\* C32: Start is never disabled for good. After an Attach that succeeded
\* with no restart loop running, once the attached process has exited the
\* Process in the end leaves RUNNING and inStart becomes false, so that a
\* later Start spawns a child.
C32_AttachedExitFreesStart ==
    (/\ inStart
     /\ lp.pc = "idle"
     /\ cmd.set
     /\ cmd.pid = OrphanPid
     /\ os[OrphanPid].st # "alive") ~> (~inStart /\ state # RUNNING)

\* C33: after Update, once the child of the new Process is running and its
\* pidfile is written, the pidfile stays as it is until that child exits or
\* Stop is called again: the restart loop of the old Process, which ends
\* later, does not remove it.
C33_UpdateKeepsNewPidfile ==
    [][(/\ Updated
        /\ ~stopByUser
        /\ lp.pc \in {"wait", "waiting"}
        /\ cmd.pid \in AliveChildren
        /\ pidfile.kind = "data"
        /\ pidfile.pid = cmd.pid)
          => (pidfile' = pidfile \/ stopByUser' \/ cmd.pid \notin AliveChildren')]_vars

\* C34: with autorestart=true and any startsecs, 0 included, a child that
\* exits at once on every spawn is spawned at most startretries times per
\* Start. One Start has been called; every child that has ended so far ended
\* at once: with startsecs 0 within the second of the Start, with startsecs
\* above 0 inside the startsecs sleep of its run.
C34_ImmediateExitsBounded ==
    (/\ cfg.autorestart = "true"
     /\ calls <= 1
     /\ \/ getStartSeconds = 0 /\ now = InitTime
        \/ getStartSeconds > 0 /\ lp.fast = Cardinality(Spawned \ AliveChildren))
        => Cardinality(Spawned) <= getStartRetries

====
